---- MODULE Spec2Model ----
(***************************************************************************)
(* Model of the multi-stage property analysis pipeline:                    *)
(*   config.py                    Config                                   *)
(*   services/llm_service.py      LLMService (provider gateway)            *)
(*   services/property_service.py PropertyAnalysisService (orchestrator)   *)
(*   services/rss_service.py      UpdatedPropertyService (second revision) *)
(*   app.py                       initialize_services, /api/property/...   *)
(*                                                                         *)
(* Python values are modelled as follows.                                  *)
(*   str        a TLA+ string; the long literal blocks of the source are   *)
(*              abbreviated to their leading line, glyphs are written as   *)
(*              ASCII tags: (ok) (x) (warn) (fire) (chart)                 *)
(*   None       <<>>, and a present optional value v is <<v>>              *)
(*   dict       a record; a key the dict lacks is a field the record lacks *)
(*   list       a sequence                                                 *)
(*   datetime   the fixed text NOW (the clock is not modelled)             *)
(***************************************************************************)
EXTENDS Naturals, Sequences, FiniteSets, TLC

(* Largest number of articles the RSS collaborator returns in the model. *)
MaxArticles == 7

None == <<>>
Some(v) == <<v>>
NOW == "<now>"

(***************************************************************************)
(* config.py                                                               *)
(***************************************************************************)
CLAUDE_MODELS ==
  << "claude-3-5-sonnet-20241022", "claude-3-haiku-20240307", "claude-3-sonnet-20240229" >>

GEMINI_MODELS ==
  << "gemini-1.5-flash", "gemini-1.5-pro", "gemini-pro" >>

PRESET_QUESTIONS ==
  << "What new development applications were submitted in Brisbane this month?",
     "Which Brisbane suburbs are trending in property news?",
     "Are there any major infrastructure projects affecting property values?",
     "What zoning changes have been approved recently?",
     "Which areas have the most development activity?" >>

(***************************************************************************)
(* Python built-ins used by the services                                   *)
(***************************************************************************)
UpperChars == "ABCDEFGHIJKLMNOPQRSTUVWXYZ"
LowerChars == "abcdefghijklmnopqrstuvwxyz"

(* str.lower() on one character *)
LowerChar(c) ==
  IF \E i \in 1..Len(UpperChars) : SubSeq(UpperChars, i, i) = c
  THEN LET i == CHOOSE j \in 1..Len(UpperChars) : SubSeq(UpperChars, j, j) = c
       IN  SubSeq(LowerChars, i, i)
  ELSE c

(* str.lower() *)
RECURSIVE Lower(_)
Lower(s) ==
  IF Len(s) = 0 THEN ""
  ELSE LowerChar(SubSeq(s, 1, 1)) \o Lower(SubSeq(s, 2, Len(s)))

(* `needle in haystack` on strings *)
StrIn(needle, haystack) ==
  \/ Len(needle) = 0
  \/ /\ Len(needle) <= Len(haystack)
     /\ \E i \in 1..(Len(haystack) - Len(needle) + 1) :
          SubSeq(haystack, i, i + Len(needle) - 1) = needle

(* any(keyword in text for keyword in keywords) *)
AnyIn(keywords, text) == \E i \in 1..Len(keywords) : StrIn(keywords[i], text)

(* x in list *)
InList(x, list) == \E i \in 1..Len(list) : list[i] = x

(* sep.join(parts) *)
RECURSIVE Join(_, _)
Join(sep, parts) ==
  IF Len(parts) = 0 THEN ""
  ELSE IF Len(parts) = 1 THEN parts[1]
  ELSE parts[1] \o sep \o Join(sep, Tail(parts))

(* variant: the slice keeps the whole list *)
TakeAll(list, n) == list

(* list[:n] *)
Take(list, n) == SubSeq(list, 1, IF Len(list) < n THEN Len(list) ELSE n)

(* dict.get(key): None when the key is missing *)
Get(d, key) == IF key \in DOMAIN d THEN d[key] ELSE None

(* truth value of an optional string: None and '' are falsy *)
Truthy(opt) == opt # None /\ opt[1] # ""

(* str(x) of an optional string inside an f-string: None renders as 'None' *)
Fmt(opt) == IF opt = None THEN "None" ELSE opt[1]

VARIABLES
  config,     \* Config flags read from the environment (config.py 15-16, 38-39)
  phase,      \* "start" before initialize_services has run, "ready" after
  llm,        \* the LLMService instance's fields
  init_log,   \* candidate models smoke-tested by LLMService.__init__, in order
  llm_sig,    \* which signature the gateway methods have (see ClaudeParams)
  rss,        \* whether services['rss'] holds an RSS collaborator
  req,        \* the locals of the analyze_property_question call in progress
  invoke,     \* the last direct gateway invocation and what it returned, until
              \* the request in progress takes its next step
  net_calls,  \* provider API calls made by the request in progress (by the
              \* direct invocation when no request is in progress)
  database,   \* whether services['database'] holds a database
  http,       \* what the /api/property/analyze handler answered, None before
  probe,      \* the last direct call of a read-only helper and what it returned
  program,    \* which entry point runs: app.py, or rss_service.py as __main__
  updated     \* the last UpdatedPropertyService.analyze_property_question call

vars == << config, phase, llm, init_log, llm_sig, rss, req, invoke, net_calls,
           database, http, probe, program, updated >>

(***************************************************************************)
(* What the environment can answer                                         *)
(***************************************************************************)
ClaudeTexts == { "Strategic view: inner-city demand is rising", "" }
GeminiTexts == { "Comprehensive report: Brisbane outlook is stable", "" }
ProviderErrors == { "429 quota exceeded" }

ProviderOutcomes(texts) ==
  { [ok |-> TRUE, text |-> t] : t \in texts } \cup
  { [ok |-> FALSE, err |-> e] : e \in ProviderErrors }

Questions ==
  { "",
    "Which areas have the most development activity?",
    "which areas have the most development activity?",
    "QLD market trend",
    "Transport upgrades",
    "Best suburb to rent" }

(***************************************************************************)
(* services/llm_service.py                                                 *)
(***************************************************************************)
(* variant: the last candidate whose smoke test succeeds *)
LastWorking(smoke) ==
  IF \E i \in DOMAIN smoke : smoke[i]
  THEN CHOOSE i \in DOMAIN smoke : smoke[i] /\ \A j \in (i + 1)..Len(smoke) : ~smoke[j]
  ELSE 0

(* index of the first candidate whose smoke test succeeds, 0 when none does *)
FirstWorking(smoke) ==
  IF \E i \in DOMAIN smoke : smoke[i]
  THEN CHOOSE i \in DOMAIN smoke : smoke[i] /\ \A j \in 1..(i - 1) : ~smoke[j]
  ELSE 0

(* what the candidate loop logs: the candidates tried, in order, each with
   the outcome of its smoke test, up to the one chosen *)
Tried(smoke) ==
  LET w == FirstWorking(smoke)
  IN  [i \in 1..(IF w = 0 THEN Len(smoke) ELSE w) |-> [index |-> i, ok |-> smoke[i]]]

(* variant: the error response carries an empty text instead of None *)
ErrorResponseEmptyText(error_msg) ==
  [success |-> FALSE, analysis |-> Some(""), error |-> error_msg, processing_time |-> 0]

(* LLMService._error_response *)
ErrorResponse(error_msg) ==
  [success |-> FALSE, analysis |-> None, error |-> error_msg, processing_time |-> 0]

(* LLMService._test_claude_connection: the working model, None when the loop raises *)
TestClaudeConnection(smoke) ==
  LET w == FirstWorking(smoke)
  IN  IF w = 0 THEN None ELSE Some(CLAUDE_MODELS[w])

(* LLMService._init_claude: the fields it leaves behind *)
InitClaude(cfg, smoke) ==
  IF ~cfg.CLAUDE_API_KEY
  THEN [claude_client |-> FALSE, working_claude_model |-> None, tried |-> << >>]
  ELSE LET working == TestClaudeConnection(smoke)
       IN  [claude_client |-> working # None,
            working_claude_model |-> working,
            tried |-> Tried(smoke)]

(* LLMService._init_gemini: the fields it leaves behind *)
InitGemini(cfg, smoke) ==
  IF ~cfg.GEMINI_API_KEY
  THEN [gemini_model |-> FALSE, working_gemini_model |-> None, tried |-> << >>]
  ELSE LET w == FirstWorking(smoke)
           working == IF w = 0 THEN None ELSE Some(GEMINI_MODELS[w])
       IN  [gemini_model |-> working # None,
            working_gemini_model |-> working,
            tried |-> Tried(smoke)]

(* LLMService.__init__ and _initialize_clients *)
NewLLMService(cfg, smokeC, smokeG) ==
  LET blankC == [claude_client |-> FALSE, working_claude_model |-> None, tried |-> << >>]
      blankG == [gemini_model |-> FALSE, working_gemini_model |-> None, tried |-> << >>]
      c == IF cfg.CLAUDE_ENABLED THEN InitClaude(cfg, smokeC) ELSE blankC
      g == IF cfg.GEMINI_ENABLED THEN InitGemini(cfg, smokeG) ELSE blankG
  IN  [fields |-> [claude_client |-> c.claude_client,
                   gemini_model |-> g.gemini_model,
                   working_claude_model |-> c.working_claude_model,
                   working_gemini_model |-> g.working_gemini_model],
       log |-> [claude |-> c.tried, gemini |-> g.tried]]

(* LLMService._create_brisbane_prompt *)
CreateBrisbanePrompt(question) ==
  "You are a Brisbane property research specialist. Analyze this question and provide insights:\n\n"
  \o "Question: \"" \o question \o "\"\n\n"
  \o "Please provide:\n"
  \o "Keep your response concise and focused specifically on Brisbane, Queensland, Australia."

(* LLMService._create_gemini_prompt *)
CreateGeminiPrompt(question, claude_context) ==
  LET base_prompt ==
        "You are a Brisbane property market analyst. Provide a comprehensive answer to this question:\n\n"
        \o "Question: \"" \o question \o "\"\n\n"
        \o "Focus on actionable information for Brisbane property professionals."
  IN  IF Truthy(claude_context)
      THEN base_prompt \o "\n\nInitial Research Context: " \o claude_context[1]
           \o "\n\nBuild upon this context to provide your comprehensive analysis."
      ELSE base_prompt

(* variant: the except clause re-raises instead of answering *)
ProviderExceptPropagates(label, e) ==
  [raised |-> TRUE, result |-> None]

(* the except clauses of analyze_with_claude / analyze_with_gemini: what the
   method answers when its try block raised e. raised tells whether an
   exception leaves the method. *)
ProviderExcept(label, e) ==
  [raised |-> FALSE, result |-> ErrorResponse(label \o " analysis failed: " \o e)]

(* variant: no availability check, the missing client fails inside the try *)
AnalyzeWithClaudeUnguarded(self, question, outcome) ==
  IF ~self.claude_client
  THEN [result |-> ErrorResponse("Claude analysis failed: 'NoneType' object has no attribute 'messages'"),
        raised |-> FALSE, net |-> 0, prompt |-> None, self |-> self]
  ELSE IF outcome.ok
  THEN [result |-> [success |-> TRUE,
                    analysis |-> Some(outcome.text),
                    model_used |-> Some(IF self.working_claude_model # None
                                        THEN self.working_claude_model[1] ELSE CLAUDE_MODELS[1]),
                    provider |-> "claude"],
        raised |-> FALSE, net |-> 1, prompt |-> Some(CreateBrisbanePrompt(question)), self |-> self]
  ELSE [result |-> ErrorResponse("Claude analysis failed: " \o outcome.err),
        raised |-> FALSE, net |-> 1, prompt |-> Some(CreateBrisbanePrompt(question)), self |-> self]

(* the body of LLMService.analyze_with_claude; `outcome` is what the provider
   API answers if it is called. net is the number of API calls made, self the
   instance's fields when the method returns. *)
AnalyzeWithClaude(self, question, outcome) ==
  IF ~self.claude_client
  THEN [result |-> ErrorResponse("Claude client not available"),
        raised |-> FALSE, net |-> 0, prompt |-> None, self |-> self]
  ELSE LET prompt == CreateBrisbanePrompt(question)
           model == IF self.working_claude_model # None
                    THEN self.working_claude_model[1] ELSE CLAUDE_MODELS[1]
       IN  IF outcome.ok
           THEN [result |-> [success |-> TRUE,
                             analysis |-> Some(outcome.text),
                             model_used |-> Some(model),
                             provider |-> "claude"],
                 raised |-> FALSE, net |-> 1, prompt |-> Some(prompt), self |-> self]
           ELSE LET caught == ProviderExcept("Claude", outcome.err)
                IN  [result |-> caught.result, raised |-> caught.raised,
                     net |-> 1, prompt |-> Some(prompt), self |-> self]

(* variant: a failed call marks the provider unavailable *)
AnalyzeWithGeminiGivesUp(self, question, claude_context, outcome) ==
  IF ~self.gemini_model
  THEN [result |-> ErrorResponse("Gemini model not available"),
        raised |-> FALSE, net |-> 0, prompt |-> None, self |-> self]
  ELSE IF outcome.ok
  THEN [result |-> [success |-> TRUE,
                    analysis |-> Some(outcome.text),
                    model_used |-> Some(IF self.working_gemini_model # None
                                        THEN self.working_gemini_model[1] ELSE GEMINI_MODELS[1]),
                    provider |-> "gemini"],
        raised |-> FALSE, net |-> 1,
        prompt |-> Some(CreateGeminiPrompt(question, claude_context)), self |-> self]
  ELSE [result |-> ErrorResponse("Gemini analysis failed: " \o outcome.err),
        raised |-> FALSE, net |-> 1,
        prompt |-> Some(CreateGeminiPrompt(question, claude_context)),
        self |-> [self EXCEPT !.gemini_model = FALSE, !.working_gemini_model = None]]

(* the body of LLMService.analyze_with_gemini *)
AnalyzeWithGemini(self, question, claude_context, outcome) ==
  IF ~self.gemini_model
  THEN [result |-> ErrorResponse("Gemini model not available"),
        raised |-> FALSE, net |-> 0, prompt |-> None, self |-> self]
  ELSE LET prompt == CreateGeminiPrompt(question, claude_context)
           model == IF self.working_gemini_model # None
                    THEN self.working_gemini_model[1] ELSE GEMINI_MODELS[1]
       IN  IF outcome.ok
           THEN [result |-> [success |-> TRUE,
                             analysis |-> Some(outcome.text),
                             model_used |-> Some(model),
                             provider |-> "gemini"],
                 raised |-> FALSE, net |-> 1, prompt |-> Some(prompt), self |-> self]
           ELSE LET caught == ProviderExcept("Gemini", outcome.err)
                IN  [result |-> caught.result, raised |-> caught.raised,
                     net |-> 1, prompt |-> Some(prompt), self |-> self]

(* variant: a provider is reported available when it is enabled and has a key *)
GetHealthStatusFromConfig(self, cfg) ==
  [value |-> [claude |-> [available |-> cfg.CLAUDE_ENABLED /\ cfg.CLAUDE_API_KEY,
                          enabled |-> cfg.CLAUDE_ENABLED,
                          working_model |-> self.working_claude_model,
                          api_key_configured |-> cfg.CLAUDE_API_KEY],
              gemini |-> [available |-> cfg.GEMINI_ENABLED /\ cfg.GEMINI_API_KEY,
                          enabled |-> cfg.GEMINI_ENABLED,
                          working_model |-> self.working_gemini_model,
                          api_key_configured |-> cfg.GEMINI_API_KEY]],
   self |-> self]

(* LLMService.get_health_status: the snapshot, and the instance's fields when
   the method returns *)
GetHealthStatus(self, cfg) ==
  [value |-> [claude |-> [available |-> self.claude_client,
                          enabled |-> cfg.CLAUDE_ENABLED,
                          working_model |-> self.working_claude_model,
                          api_key_configured |-> cfg.CLAUDE_API_KEY],
              gemini |-> [available |-> self.gemini_model,
                          enabled |-> cfg.GEMINI_ENABLED,
                          working_model |-> self.working_gemini_model,
                          api_key_configured |-> cfg.GEMINI_API_KEY]],
   self |-> self]

(* parameter names of analyze_with_claude / analyze_with_gemini in src/ *)
SrcClaudeParams == { "question" }
SrcGeminiParams == { "question", "claude_context" }

(* parameter names of the gateway revision property_service.py is written
   against: the same methods taking the context block as a keyword *)
RevisedClaudeParams == { "question", "context" }
RevisedGeminiParams == { "question", "claude_context", "context" }

ClaudeParams(sig) == IF sig = "src" THEN SrcClaudeParams ELSE RevisedClaudeParams
GeminiParams(sig) == IF sig = "src" THEN SrcGeminiParams ELSE RevisedGeminiParams

(* Python's argument binding: a keyword the function does not declare raises
   TypeError before the body runs *)
BindRaises(params, keywords) == ~(keywords \subseteq params)

(***************************************************************************)
(* The RSS collaborator (RSSService.get_brisbane_news / get_recent_news):   *)
(* what a fetch can answer                                                 *)
(***************************************************************************)
ArticleVariants == { "plain", "hot", "nolink", "malformed" }

(* the i-th article of a fetch: "hot" articles carry brisbane_relevant, a
   "nolink" article has an empty link, a "malformed" one lacks its title *)
Article(i, variant) ==
  LET core == [source |-> "Feed " \o ToString(i),
               summary |-> "Summary " \o ToString(i),
               link |-> IF variant = "nolink" THEN "" ELSE "https://news.example/" \o ToString(i),
               published |-> "2025-01-0" \o ToString(i)]
      titled == core @@ [title |-> "Headline " \o ToString(i)]
  IN  IF variant = "malformed" THEN core
      ELSE IF variant = "hot" THEN titled @@ [brisbane_relevant |-> TRUE]
      ELSE titled

Articles(n, variant) == [i \in 1..n |-> Article(i, variant)]

Fetches ==
  { [raises |-> TRUE] } \cup
  { [raises |-> FALSE, articles |-> Articles(n, "plain")] : n \in { 0, 1, 5, 6, MaxArticles } } \cup
  { [raises |-> FALSE, articles |-> Articles(n, "hot")] : n \in { 2, MaxArticles } } \cup
  { [raises |-> FALSE, articles |-> Articles(1, v)] : v \in { "nolink", "malformed" } }

(***************************************************************************)
(* services/property_service.py                                            *)
(***************************************************************************)
(* variant: the comparison with the preset list ignores case *)
DetermineQuestionTypeIgnoreCase(question) ==
  IF \E i \in 1..Len(PRESET_QUESTIONS) : Lower(PRESET_QUESTIONS[i]) = Lower(question)
  THEN "preset" ELSE "custom"

(* PropertyAnalysisService._determine_question_type *)
DetermineQuestionType(question) ==
  IF InList(question, PRESET_QUESTIONS) THEN "preset" ELSE "custom"

(* variant: the placeholder is flagged as real data *)
GetFallbackDataSourcesFlaggedReal ==
  << [source |-> "Australian Property Market Analysis",
      title |-> "RSS feeds temporarily unavailable",
      summary |-> "Analysis based on general Australian property market knowledge",
      type |-> "fallback",
      date |-> NOW,
      relevance |-> "medium",
      real_data |-> TRUE] >>

(* PropertyAnalysisService._get_fallback_data_sources *)
GetFallbackDataSources ==
  << [source |-> "Australian Property Market Analysis",
      title |-> "RSS feeds temporarily unavailable",
      summary |-> "Analysis based on general Australian property market knowledge",
      type |-> "fallback",
      date |-> NOW,
      relevance |-> "medium",
      real_data |-> FALSE] >>

BrisbaneKeywords == << "brisbane", "queensland", "qld", "gold coast", "sunshine coast" >>

(* the keys the conversion loop reads with article[...] *)
ArticleKeys == { "source", "title", "summary", "link", "published" }

(* one iteration of the conversion loop of _get_real_property_data_sources *)
ToDataSource(article) ==
  [source |-> article.source,
   title |-> article.title,
   summary |-> article.summary,
   link |-> article.link,
   published |-> article.published,
   type |-> "rss_news",
   date |-> article.published,
   relevance |-> IF "brisbane_relevant" \in DOMAIN article /\ article.brisbane_relevant
                 THEN "high" ELSE "medium",
   real_data |-> TRUE]

(* which collaborator method _get_real_property_data_sources calls *)
RssCall(question) ==
  IF AnyIn(BrisbaneKeywords, Lower(question))
  THEN [method |-> "get_brisbane_news", max_articles |-> 6]
  ELSE [method |-> "get_recent_news", max_articles |-> 8]

(* variant: an empty article list is answered with the fallback sources *)
GetRealPropertyDataSourcesOrFallback(rss_service, question, fetch) ==
  IF ~rss_service THEN GetFallbackDataSources
  ELSE IF fetch.raises THEN GetFallbackDataSources
  ELSE IF Len(fetch.articles) = 0 THEN GetFallbackDataSources
  ELSE IF \E i \in 1..Len(fetch.articles) : ~(ArticleKeys \subseteq DOMAIN fetch.articles[i])
       THEN GetFallbackDataSources
  ELSE [i \in 1..Len(fetch.articles) |-> ToDataSource(fetch.articles[i])]

(* PropertyAnalysisService._get_real_property_data_sources *)
GetRealPropertyDataSources(rss_service, question, fetch) ==
  IF ~rss_service THEN GetFallbackDataSources
  ELSE IF fetch.raises THEN GetFallbackDataSources
  ELSE IF \E i \in 1..Len(fetch.articles) : ~(ArticleKeys \subseteq DOMAIN fetch.articles[i])
       THEN GetFallbackDataSources
  ELSE [i \in 1..Len(fetch.articles) |-> ToDataSource(fetch.articles[i])]

RssNotice ==
  "\n# Australian Property Market Analysis Context\n"
  \o "Note: Real-time RSS data is temporarily unavailable. Analysis based on general property market knowledge.\n"

RssInstructions ==
  "\n**Analysis Instructions**: This is REAL current Australian property market data from live industry RSS feeds. Provide comprehensive analysis using these actual market conditions and developments.\n"

(* the text _build_rss_context appends for the i-th source *)
RssEntry(i, source) ==
  "\n### " \o ToString(i) \o ". " \o source.title \o "\n"
  \o "- **Source**: " \o source.source \o "\n"
  \o "- **Published**: " \o source.published \o "\n"
  \o "- **Summary**: " \o source.summary \o "\n"
  \o "- **Link**: " \o source.link \o "\n"
  \o (IF source.relevance = "high"
      THEN "- **Relevance**: (fire) High relevance to query\n" ELSE "")
  \o "\n"

RECURSIVE RssEntries(_, _)
RssEntries(sources, i) ==
  IF i > Len(sources) THEN ""
  ELSE RssEntry(i, sources[i]) \o RssEntries(sources, i + 1)

(* the keys the rendering loop of _build_rss_context reads with source[...] *)
RssEntryKeys == { "title", "source", "published", "summary", "link" }

(* _build_rss_context raises KeyError: a source it renders lacks a key *)
BuildRssContextRaises(question, data_sources) ==
  /\ Len(data_sources) > 0
  /\ data_sources[1].real_data
  /\ \E i \in 1..Len(Take(data_sources, 6)) : ~(RssEntryKeys \subseteq DOMAIN data_sources[i])

(* variant: the notice is returned for every list *)
BuildRssContextNoticeOnly(question, data_sources) == RssNotice

(* variant: the rendered form stops after the last source *)
BuildRssContextNoInstructions(question, data_sources) ==
  IF Len(data_sources) = 0 \/ ~data_sources[1].real_data
  THEN RssNotice
  ELSE "\n# Current Australian Property Market Data\n"
       \o "Retrieved from live industry RSS feeds on " \o NOW \o "\n\n"
       \o "## Real Property News and Developments:\n"
       \o RssEntries(Take(data_sources, 6), 1)

(* PropertyAnalysisService._build_rss_context *)
BuildRssContext(question, data_sources) ==
  IF Len(data_sources) = 0 \/ ~data_sources[1].real_data
  THEN RssNotice
  ELSE "\n# Current Australian Property Market Data\n"
       \o "Retrieved from live industry RSS feeds on " \o NOW \o "\n\n"
       \o "## Real Property News and Developments:\n"
       \o RssEntries(Take(data_sources, 6), 1)
       \o RssInstructions

ClaudeSectionHeader == "\n\n## Strategic Analysis Context (from Claude):\n"

FinalInstructions ==
  "\n\n## Final Analysis Instructions:\n"
  \o "Using the real Australian property market data above and the strategic analysis, provide a comprehensive, professional response\n"

(* variant: the Claude section is appended whether or not Claude succeeded *)
BuildEnhancedContextAlways(question, claude_result, rss_context) ==
  rss_context \o ClaudeSectionHeader \o Fmt(Get(claude_result, "analysis")) \o FinalInstructions

(* PropertyAnalysisService._build_enhanced_context *)
BuildEnhancedContext(question, claude_result, rss_context) ==
  IF claude_result.success
  THEN rss_context \o ClaudeSectionHeader \o Fmt(Get(claude_result, "analysis")) \o FinalInstructions
  ELSE rss_context

FallbackBase ==
  "Based on general Australian property market knowledge, here's an analysis of your question:\n\n"
  \o "**Current Australian Property Market Overview:**\n"
  \o "**Key National Trends:**\n"
  \o "**Market Factors to Consider:**"

FallbackNote ==
  "\n\n**Note**: This analysis is based on general market knowledge."

(* variant: the closing note depends on the sources the request has gathered *)
GenerateFallbackAnswerBySources(question) ==
  LET question_lower == Lower(question)
      insight ==
        IF AnyIn(<< "development", "application", "planning" >>, question_lower)
        THEN "\n\n**Development Activity Insights:**"
        ELSE IF AnyIn(<< "trend", "market", "growth" >>, question_lower)
        THEN "\n\n**Market Trend Analysis:**"
        ELSE IF AnyIn(<< "infrastructure", "transport" >>, question_lower)
        THEN "\n\n**Infrastructure Impact:**"
        ELSE ""
  IN  FallbackBase \o insight
      \o (IF Len(req.data_sources) > 1 THEN "\n\n**Note**: See the sources below." ELSE FallbackNote)

(* PropertyAnalysisService._generate_fallback_answer *)
GenerateFallbackAnswer(question) ==
  LET question_lower == Lower(question)
      insight ==
        IF AnyIn(<< "development", "application", "planning" >>, question_lower)
        THEN "\n\n**Development Activity Insights:**"
        ELSE IF AnyIn(<< "trend", "market", "growth" >>, question_lower)
        THEN "\n\n**Market Trend Analysis:**"
        ELSE IF AnyIn(<< "infrastructure", "transport" >>, question_lower)
        THEN "\n\n**Infrastructure Impact:**"
        ELSE ""
  IN  FallbackBase \o insight \o FallbackNote

(* the lines the sources loop of _format_comprehensive_answer appends *)
RECURSIVE SourceLines(_)
SourceLines(sources) ==
  IF Len(sources) = 0 THEN << >>
  ELSE LET source == sources[1]
           indicator == IF source.relevance = "high" THEN "(fire)" ELSE "(chart)"
           entry == IF source.real_data
                    THEN << "- **" \o source.source \o "** " \o indicator \o ": " \o source.title >>
                         \o (IF "link" \in DOMAIN source /\ source.link # ""
                             THEN << "  *Published: " \o source.published \o "*" >>
                             ELSE << >>)
                    ELSE << >>
       IN  entry \o SourceLines(Tail(sources))

RealSourcesHeading == "### Real Australian Property Data Sources"
DataSourcesHeading == "### Data Sources"
SummaryHeading == "### AI Analysis Summary"

(* variant: Claude's text preferred over Gemini's *)
MainAnalysisClaudeFirst(question, claude_result, gemini_result) ==
  IF claude_result.success THEN claude_result.analysis[1]
  ELSE IF gemini_result.success THEN gemini_result.analysis[1]
  ELSE GenerateFallbackAnswer(question)

(* the main-analysis segment of _format_comprehensive_answer *)
MainAnalysis(question, claude_result, gemini_result) ==
  IF gemini_result.success THEN gemini_result.analysis[1]
  ELSE IF claude_result.success THEN claude_result.analysis[1]
  ELSE GenerateFallbackAnswer(question)

(* variant: the status line does not look at the result *)
ClaudeStatusAlwaysCompleted(claude_result) == "(ok) Strategic Analysis Completed"

ClaudeStatus(claude_result) ==
  IF claude_result.success
  THEN "(ok) Strategic Analysis Completed" ELSE "(x) Strategic Analysis Failed"

GeminiStatus(gemini_result) ==
  IF gemini_result.success
  THEN "(ok) Comprehensive Analysis Completed" ELSE "(x) Comprehensive Analysis Failed"

(* answer_parts of _format_comprehensive_answer *)
AnswerParts(question, claude_result, gemini_result, data_sources, has_real_data) ==
  << MainAnalysis(question, claude_result, gemini_result), "" >>
  \o (IF Len(data_sources) > 0 /\ has_real_data
      THEN << RealSourcesHeading, "" >> \o SourceLines(Take(data_sources, 5)) \o << "" >>
      ELSE IF Len(data_sources) > 0
      THEN << DataSourcesHeading, "",
              "- Analysis based on general Australian property market knowledge",
              "- Real-time RSS data temporarily unavailable", "" >>
      ELSE << >>)
  \o << SummaryHeading, "",
        "- **Claude 3.5 Sonnet**: " \o ClaudeStatus(claude_result),
        "- **Gemini 1.5 Flash**: " \o GeminiStatus(gemini_result),
        "- **Data Sources**: "
          \o (IF has_real_data
              THEN "(ok) " \o ToString(Len(data_sources)) \o " Real RSS Sources"
              ELSE "(warn) Fallback Data Used"),
        "- **Analysis Date**: " \o NOW,
        "",
        "---",
        IF has_real_data
        THEN "*Australian Property Intelligence - Real-time RSS data from RealEstate.com.au, Smart Property Investment, and industry sources*"
        ELSE "*Australian Property Intelligence - Professional Multi-LLM Analysis System*" >>

(* PropertyAnalysisService._format_comprehensive_answer *)
FormatComprehensiveAnswer(question, claude_result, gemini_result, data_sources, has_real_data) ==
  Join("\n", AnswerParts(question, claude_result, gemini_result, data_sources, has_real_data))

(* variant: no except clause, the exception leaves the method *)
ExceptHandlerPropagates(question, error) ==
  [raised |-> TRUE, value |-> None]

(* the except clause of analyze_property_question: the record it returns.
   raised tells whether an exception leaves the method. *)
ExceptHandler(question, error) ==
  [raised |-> FALSE,
   value |-> Some([success |-> FALSE,
                   error |-> error,
                   final_answer |-> GenerateFallbackAnswer(question)])]

(* variant: the success flag follows the providers' success *)
PipelineResultProviderSuccess(question, question_type, final_answer, claude_result, gemini_result, data_sources) ==
  [success |-> claude_result.success \/ gemini_result.success,
   question |-> question,
   question_type |-> question_type,
   final_answer |-> final_answer,
   processing_stages |->
     [claude_success |-> claude_result.success,
      gemini_success |-> gemini_result.success,
      rss_data_sources |-> Len(data_sources),
      data_sources_count |-> Len(data_sources),
      claude_model |-> Get(claude_result, "model_used"),
      gemini_model |-> Get(gemini_result, "model_used"),
      real_data_used |-> Len(data_sources) > 0],
   claude_result |-> claude_result,
   gemini_result |-> gemini_result,
   data_sources |-> data_sources]

(* the record analyze_property_question returns when no stage raised *)
PipelineResult(question, question_type, final_answer, claude_result, gemini_result, data_sources) ==
  [success |-> TRUE,
   question |-> question,
   question_type |-> question_type,
   final_answer |-> final_answer,
   processing_stages |->
     [claude_success |-> claude_result.success,
      gemini_success |-> gemini_result.success,
      rss_data_sources |-> Len(data_sources),
      data_sources_count |-> Len(data_sources),
      claude_model |-> Get(claude_result, "model_used"),
      gemini_model |-> Get(gemini_result, "model_used"),
      real_data_used |-> Len(data_sources) > 0],
   claude_result |-> claude_result,
   gemini_result |-> gemini_result,
   data_sources |-> data_sources]

(* variant: the two provider stages in the opposite order *)
StageAfterSwapped(stage) ==
  CASE stage = "Classifying" -> "GatheringContext"
    [] stage = "GatheringContext" -> "InvokingProviderB"
    [] stage = "InvokingProviderB" -> "InvokingProviderA"
    [] stage = "InvokingProviderA" -> "Formatting"
    [] stage = "Formatting" -> "Done"

(* the order in which analyze_property_question runs its stages *)
StageAfter(stage) ==
  CASE stage = "Classifying" -> "GatheringContext"
    [] stage = "GatheringContext" -> "InvokingProviderA"
    [] stage = "InvokingProviderA" -> "InvokingProviderB"
    [] stage = "InvokingProviderB" -> "Formatting"
    [] stage = "Formatting" -> "Done"

IdleReq ==
  [pc |-> "idle", question |-> "", question_type |-> None, rss_call |-> None,
   fetched |-> None,
   data_sources |-> << >>, rss_context |-> None,
   a |-> "not_started", b |-> "not_started",
   claude_result |-> None, enhanced_context |-> None, gemini_args |-> None,
   gemini_result |-> None, result |-> None, raised |-> FALSE, fault |-> None,
   claude_calls |-> 0, gemini_calls |-> 0,
   stages |-> << >>]

Goto(r, stage) == [r EXCEPT !.pc = stage, !.stages = Append(r.stages, stage)]

(* control leaves the try block for the except clause *)
HandleFault(r, error) ==
  LET h == ExceptHandler(r.question, error)
  IN  [Goto(r, "Done") EXCEPT !.fault = Some(error), !.raised = h.raised, !.result = h.value]

TypeErrorText(method) == method \o "() got an unexpected keyword argument 'context'"

(***************************************************************************)
(* services/rss_service.py: UpdatedPropertyService                         *)
(***************************************************************************)
(* character budget of a source summary *)
SummaryBudget == 300

RECURSIVE Pad(_)
Pad(n) ==
  IF n = 0 THEN ""
  ELSE IF n % 2 = 0 THEN LET half == Pad(n \div 2) IN half \o half
  ELSE "s" \o Pad(n - 1)

SummaryLen(i) ==
  CASE i = 1 -> SummaryBudget + 1
    [] i = 2 -> SummaryBudget
    [] OTHER -> 9

(* the i-th article rss_service answers: a "bare" article has only its
   source, a "malformed" one lacks it *)
NewsArticle(i, variant) ==
  LET optional == [title |-> "Headline " \o ToString(i),
                   summary |-> Pad(SummaryLen(i)),
                   link |-> "https://news.example/" \o ToString(i),
                   published |-> "2025-01-0" \o ToString(i)]
      source == [source |-> "Feed " \o ToString(i)]
  IN  CASE variant = "full" -> source @@ optional
        [] variant = "bare" -> source
        [] variant = "malformed" -> optional

News(n, variant) == [i \in 1..n |-> NewsArticle(i, variant)]

NewsFetches ==
  { [raises |-> TRUE],
    [raises |-> FALSE, brisbane |-> News(0, "full"), general |-> News(0, "full")],
    [raises |-> FALSE, brisbane |-> News(MaxArticles - 1, "full"), general |-> News(4, "full")],
    [raises |-> FALSE, brisbane |-> News(1, "full"), general |-> News(MaxArticles + 2, "full")],
    [raises |-> FALSE, brisbane |-> News(1, "bare"), general |-> News(1, "bare")],
    [raises |-> FALSE, brisbane |-> News(1, "malformed"), general |-> News(1, "malformed")] }

(* what llm_service.query_claude / query_gemini can answer *)
QueryOutcomes(texts, model) ==
  { [raises |-> TRUE] } \cup
  { [raises |-> FALSE, value |-> [success |-> TRUE, response |-> t, model |-> model]] : t \in texts } \cup
  { [raises |-> FALSE, value |-> [success |-> FALSE, error |-> e]] : e \in ProviderErrors }

(* article.get(key, default) *)
GetOr(d, key, default) == IF key \in DOMAIN d THEN d[key] ELSE default

(* variant: a summary of exactly the budget's length is cut as well *)
TruncateSummaryFromBudget(summary) ==
  IF Len(summary) >= SummaryBudget
  THEN SubSeq(summary, 1, SummaryBudget) \o "..."
  ELSE summary

(* summary[:300] + "..." if len(summary) > 300 else summary *)
TruncateSummary(summary) ==
  IF Len(summary) > SummaryBudget
  THEN SubSeq(summary, 1, SummaryBudget) \o "..."
  ELSE summary

(* one source record of UpdatedPropertyService._get_real_data_sources *)
NewsSource(id, label, article, scope) ==
  [id |-> id,
   name |-> label \o " - " \o article.source,
   type |-> "rss_feed",
   url |-> GetOr(article, "link", ""),
   title |-> GetOr(article, "title", "No title"),
   summary |-> TruncateSummary(GetOr(article, "summary", "")),
   published |-> GetOr(article, "published", ""),
   source_feed |-> GetOr(article, "source", "Unknown"),
   success |-> TRUE] @@ scope

(* UpdatedPropertyService._get_fallback_sources *)
UpdatedGetFallbackSources ==
  << [id |-> "fallback_1",
      name |-> "Australian Property Market - System Fallback",
      type |-> "fallback",
      title |-> "RSS feeds temporarily unavailable",
      summary |-> "The system is currently using fallback data. Real RSS integration will be restored shortly.",
      success |-> FALSE,
      fallback |-> TRUE] >>

(* UpdatedPropertyService._get_real_data_sources *)
UpdatedGetRealDataSources(question, fetch) ==
  IF fetch.raises THEN UpdatedGetFallbackSources
  ELSE IF AnyIn(BrisbaneKeywords, Lower(question))
  THEN LET b == Take(fetch.brisbane, 5)
           g == Take(fetch.general, 3)
       IN  IF \E i \in 1..Len(b) : "source" \notin DOMAIN b[i] THEN UpdatedGetFallbackSources
           ELSE IF \E i \in 1..Len(g) : "source" \notin DOMAIN g[i] THEN UpdatedGetFallbackSources
           ELSE [i \in 1..Len(b) |->
                   NewsSource("brisbane_rss_" \o ToString(i), "Brisbane Property News", b[i],
                              [brisbane_relevant |-> TRUE])]
                \o [i \in 1..Len(g) |->
                      NewsSource("general_rss_" \o ToString(i), "Australian Property News", g[i],
                                 [brisbane_relevant |-> FALSE])]
  ELSE LET g == Take(fetch.general, 8)
       IN  IF \E i \in 1..Len(g) : "source" \notin DOMAIN g[i] THEN UpdatedGetFallbackSources
           ELSE [i \in 1..Len(g) |->
                   NewsSource("aus_property_" \o ToString(i), "Australian Property News", g[i],
                              [national_scope |-> TRUE])]

(* source.get('success') and not source.get('fallback') *)
IsRealSource(source) ==
  /\ "success" \in DOMAIN source /\ source.success
  /\ ~("fallback" \in DOMAIN source /\ source.fallback)

RECURSIVE ContextEntries(_, _)
ContextEntries(sources, i) ==
  IF i > Len(sources) THEN ""
  ELSE (IF IsRealSource(sources[i])
        THEN "\n### Source " \o ToString(i) \o ": " \o sources[i].name \o "\n"
             \o "- **Type**: Live RSS Feed\n"
             \o "- **Source**: " \o GetOr(sources[i], "source_feed", "Unknown") \o "\n"
             \o "- **Published**: " \o GetOr(sources[i], "published", "Recent") \o "\n"
             \o "- **Title**: " \o GetOr(sources[i], "title", "No title") \o "\n"
             \o "- **Summary**: " \o GetOr(sources[i], "summary", "No summary available") \o "\n"
             \o "- **URL**: " \o GetOr(sources[i], "url", "N/A") \o "\n"
             \o (IF "brisbane_relevant" \in DOMAIN sources[i] /\ sources[i].brisbane_relevant
                 THEN "- **Brisbane Relevance**: (ok) Specifically relevant to Brisbane/Queensland\n"
                 ELSE IF "national_scope" \in DOMAIN sources[i] /\ sources[i].national_scope
                 THEN "- **Scope**: (au) Australian national property market\n"
                 ELSE "")
             \o "\n"
        ELSE "")
       \o ContextEntries(sources, i + 1)

(* UpdatedPropertyService._prepare_analysis_context *)
PrepareAnalysisContext(question, data_sources) ==
  IF \E i \in 1..Len(data_sources) : IsRealSource(data_sources[i])
  THEN "\n# Australian Property Intelligence Analysis Context\n\n"
       \o "## Query: " \o question \o "\n\n"
       \o "## Real Australian Property Data Sources (RSS Feeds)\n"
       \o "Retrieved from live Australian property industry RSS feeds on " \o NOW \o ":\n\n"
       \o ContextEntries(data_sources, 1)
       \o "\n## Analysis Instructions\n"
       \o "You are analyzing REAL Australian property market data from live RSS feeds.\n"
  ELSE "\n# Australian Property Intelligence Analysis Context\n\n"
       \o "## Query: " \o question \o "\n\n"
       \o "## System Status: RSS Feeds Temporarily Unavailable\n"
       \o "\n## Analysis Instructions\n"
       \o "Please provide a comprehensive analysis of the property question using general Australian property market knowledge, while noting that real-time data is temporarily unavailable.\n"

(* the Gemini prompt of UpdatedPropertyService._run_multi_llm_analysis *)
UpdatedGeminiPrompt(question, context, claude_result) ==
  LET claude_success == GetOr(claude_result, "success", FALSE)
  IN  "\n" \o context \o "\n\n"
      \o "Based on the real Australian property market data provided above, please provide a comprehensive analysis of this property question:\n\n"
      \o question \o "\n\n"
      \o (IF claude_success THEN "CLAUDE STRATEGIC ANALYSIS:" ELSE "") \o "\n"
      \o (IF claude_success THEN GetOr(claude_result, "response", "") ELSE "") \o "\n\n"
      \o "Please provide a detailed, professional response\n"

ProvidersDownApology ==
  "I apologize, but I'm experiencing technical difficulties accessing the AI analysis services. Please try again in a moment."

AnalysisErrorApology ==
  "I encountered an error during the analysis process. Please try again."

(* UpdatedPropertyService._run_multi_llm_analysis *)
RunMultiLlmAnalysis(question, context, cq, gq) ==
  IF cq.raises \/ gq.raises
  THEN [final_answer |-> AnalysisErrorApology,
        claude_success |-> FALSE,
        gemini_success |-> FALSE,
        rss_success |-> FALSE,
        error |-> "query failed"]
  ELSE LET claude_result == cq.value
           gemini_result == gq.value
           claude_success == GetOr(claude_result, "success", FALSE)
           gemini_success == GetOr(gemini_result, "success", FALSE)
       IN  [final_answer |->
              IF gemini_success THEN GetOr(gemini_result, "response", "")
              ELSE IF claude_success THEN GetOr(claude_result, "response", "")
              ELSE ProvidersDownApology,
            claude_success |-> claude_success,
            gemini_success |-> gemini_success,
            rss_success |-> TRUE,
            claude_model |-> GetOr(claude_result, "model", "claude-3-5-sonnet-20241022"),
            gemini_model |-> GetOr(gemini_result, "model", "gemini-1.5-flash")]

(* UpdatedPropertyService._classify_question_type *)
ClassifyQuestionType(question) ==
  LET q == Lower(question)
  IN  IF AnyIn(<< "development", "application", "planning", "approval" >>, q)
      THEN "development_applications"
      ELSE IF AnyIn(<< "trend", "market", "price", "value" >>, q) THEN "market_trends"
      ELSE IF AnyIn(<< "suburb", "area", "location", "region" >>, q) THEN "location_analysis"
      ELSE IF AnyIn(<< "investment", "buy", "purchase", "invest" >>, q) THEN "investment_advice"
      ELSE IF AnyIn(<< "infrastructure", "transport", "school", "amenity" >>, q)
      THEN "infrastructure_analysis"
      ELSE IF AnyIn(<< "zoning", "regulation", "law", "legal" >>, q) THEN "regulatory_inquiry"
      ELSE "general_property"

(* the names of the sources with success set *)
RealSourcesUsed(sources) ==
  LET keep == { i \in 1..Len(sources) : "success" \in DOMAIN sources[i] /\ sources[i].success }
  IN  [k \in 1..Cardinality(keep) |->
         sources[CHOOSE i \in keep : Cardinality({ j \in keep : j < i }) = k - 1].name]

(* UpdatedPropertyService.analyze_property_question *)
UpdatedAnalyzePropertyQuestion(question, include_details, fetch, cq, gq) ==
  LET real_data_sources == UpdatedGetRealDataSources(question, fetch)
      context_data == PrepareAnalysisContext(question, real_data_sources)
      analysis_result == RunMultiLlmAnalysis(question, context_data, cq, gq)
  IN  [success |-> TRUE,
       question |-> question,
       question_type |-> ClassifyQuestionType(question),
       answer |-> analysis_result.final_answer,
       processing_stages |->
         [rss_data_fetched |-> analysis_result.rss_success,
          claude_success |-> analysis_result.claude_success,
          gemini_success |-> analysis_result.gemini_success,
          claude_model |-> GetOr(analysis_result, "claude_model", "claude-3-5-sonnet-20241022"),
          gemini_model |-> GetOr(analysis_result, "gemini_model", "gemini-1.5-flash"),
          data_sources_count |-> Len(real_data_sources),
          real_sources_used |-> RealSourcesUsed(real_data_sources)],
       data_sources |-> IF include_details THEN Some(real_data_sources) ELSE None]

(***************************************************************************)
(* State machine                                                           *)
(***************************************************************************)
BlankLLM ==
  [claude_client |-> FALSE, gemini_model |-> FALSE,
   working_claude_model |-> None, working_gemini_model |-> None]

(* Config as os.getenv leaves it when no variable is set (config.py 15-16, 38-39) *)
DefaultConfig ==
  [CLAUDE_ENABLED |-> TRUE, CLAUDE_API_KEY |-> FALSE,
   GEMINI_ENABLED |-> TRUE, GEMINI_API_KEY |-> FALSE]

Init ==
  /\ \/ /\ program = "app"
        /\ config \in [CLAUDE_ENABLED : BOOLEAN, CLAUDE_API_KEY : BOOLEAN,
                       GEMINI_ENABLED : BOOLEAN, GEMINI_API_KEY : BOOLEAN]
        /\ llm_sig \in { "src", "revised" }
     \/ /\ program = "updated"
        /\ config = DefaultConfig
        /\ llm_sig = "src"
  /\ updated = None
  /\ phase = "start"
  /\ llm = BlankLLM
  /\ init_log = [claude |-> << >>, gemini |-> << >>]
  /\ rss = FALSE
  /\ req = IdleReq
  /\ invoke = None
  /\ probe = None
  /\ database = FALSE
  /\ http = None
  /\ net_calls = 0

(* PropertyDatabase(Config.DATABASE_PATH) raises or not at start-up; a failed
   start-up is explored for the deployments without API keys *)
DatabaseOutcomes(cfg) ==
  IF ~cfg.CLAUDE_API_KEY /\ ~cfg.GEMINI_API_KEY THEN BOOLEAN ELSE { TRUE }

(* what services['database'].store_query answers: the new row's id, or it raises *)
StoreOutcomes == { [ok |-> TRUE, id |-> "row-1"], [ok |-> FALSE] }

(* variant: the handler stores without asking whether a database is there *)
ShouldStoreWithoutDatabase(db, result) == result.success

(* `if services['database'] and result['success']` *)
ShouldStore(db, result) == db /\ result.success

(* PropertyAnalysisService.get_analysis_summary *)
GetAnalysisSummary(analysis_result) ==
  LET stages == GetOr(analysis_result, "processing_stages", [none |-> TRUE])
  IN  [question_type |-> Get(analysis_result, "question_type"),
       success |-> Get(analysis_result, "success"),
       providers_used |->
         (IF GetOr(stages, "claude_success", FALSE) THEN << "claude" >> ELSE << >>)
         \o (IF GetOr(stages, "gemini_success", FALSE) THEN << "gemini" >> ELSE << >>),
       data_sources_count |-> GetOr(stages, "data_sources_count", 0),
       real_data_used |-> GetOr(stages, "real_data_used", FALSE),
       answer_length |-> Len(GetOr(analysis_result, "final_answer", ""))]

(* the keys the handler reads from the result with result[...] *)
HandlerKeys == { "success", "question_type", "final_answer", "processing_stages" }

(* the subscript that raises KeyError first: lines 429, 431, 432, 435 in order *)
FirstMissingKey(result) ==
  IF "success" \notin DOMAIN result THEN "success"
  ELSE IF "question_type" \notin DOMAIN result THEN "question_type"
  ELSE IF "final_answer" \notin DOMAIN result THEN "final_answer"
  ELSE "processing_stages"

(* the /api/property/analyze handler from the service's return on: the status
   and body it answers, the store_query calls it made and the rows stored.
   A missing key raises KeyError in the handler's try block, which its except
   clause answers with status 500. *)
HandlerResponse(question, result, db, store) ==
  LET try_store == ShouldStore(db, result)
      store_raises == try_store /\ (~store.ok \/ "question_type" \notin DOMAIN result)
      query_id == IF try_store /\ ~store_raises THEN Some(store.id) ELSE None
      effects == [store_calls |-> IF try_store /\ "question_type" \in DOMAIN result
                                 THEN 1 ELSE 0,
                  stored |-> IF query_id # None THEN 1 ELSE 0]
  IN  IF HandlerKeys \subseteq DOMAIN result
      THEN effects @@
           [status |-> 200,
            body |-> [success |-> result.success,
                      question |-> question,
                      question_type |-> result.question_type,
                      answer |-> result.final_answer,
                      query_id |-> query_id,
                      processing_stages |-> result.processing_stages,
                      analysis_summary |-> GetAnalysisSummary(result)]]
      ELSE effects @@
           [status |-> 500,
            body |-> [success |-> FALSE,
                      error |-> "'" \o FirstMissingKey(result) \o "'"]]

(* app.py initialize_services: LLMService(), the RSS collaborator (None when
   its construction raises), PropertyAnalysisService(llm, rss) *)
InitializeServices ==
  /\ program = "app"
  /\ phase = "start"
  /\ \E smokeC \in [1..Len(CLAUDE_MODELS) -> BOOLEAN],
        smokeG \in [1..Len(GEMINI_MODELS) -> BOOLEAN],
        rss_ok \in BOOLEAN, db_ok \in DatabaseOutcomes(config) :
       LET svc == NewLLMService(config, smokeC, smokeG)
       IN  /\ database' = db_ok
           /\ llm' = svc.fields
           /\ init_log' = svc.log
           /\ net_calls' = Len(svc.log.claude) + Len(svc.log.gemini)
           /\ rss' = rss_ok
  /\ phase' = "ready"
  /\ UNCHANGED << http, probe, program, updated, config, llm_sig, req, invoke >>

(* the /api/property/analyze handler calls analyze_property_question *)
NewRequest ==
  /\ phase = "ready"
  /\ req.pc \in { "idle", "Done", "Responded" }
  /\ \E q \in Questions :
       req' = Goto([IdleReq EXCEPT !.question = q], "Classifying")
  /\ invoke' = None
  /\ net_calls' = 0
  /\ probe' = None
  /\ http' = None
  /\ UNCHANGED << database, program, updated, config, phase, llm, init_log, llm_sig, rss >>

(* property_service.py line 24 *)
Classify ==
  /\ req.pc = "Classifying"
  /\ req' = Goto([req EXCEPT !.question_type = Some(DetermineQuestionType(req.question))],
                 StageAfter("Classifying"))
  /\ UNCHANGED << database, http, probe, program, updated, config, phase, llm, init_log, llm_sig, rss, invoke, net_calls >>

(* property_service.py lines 27-28 *)
GatherContext ==
  /\ req.pc = "GatheringContext"
  /\ \E fetch \in Fetches :
       LET data_sources == GetRealPropertyDataSources(rss, req.question, fetch)
           gathered == [req EXCEPT
                          !.rss_call = IF rss THEN Some(RssCall(req.question)) ELSE None,
                          !.fetched = IF rss /\ ~fetch.raises
                                      THEN Some(Len(fetch.articles)) ELSE None,
                          !.data_sources = data_sources]
       IN  req' = IF BuildRssContextRaises(req.question, data_sources)
                  THEN HandleFault(gathered, "KeyError")
                  ELSE Goto([gathered EXCEPT
                               !.rss_context = Some(BuildRssContext(req.question, data_sources))],
                            StageAfter("GatheringContext"))
  /\ UNCHANGED << database, http, probe, program, updated, config, phase, llm, init_log, llm_sig, rss, invoke, net_calls >>

(* property_service.py line 31: the call binds its arguments *)
StartClaude ==
  /\ req.pc = "InvokingProviderA"
  /\ req.a = "not_started"
  /\ req' = IF BindRaises(ClaudeParams(llm_sig), { "context" })
            THEN HandleFault(req, TypeErrorText("analyze_with_claude"))
            ELSE [req EXCEPT !.a = "running", !.claude_calls = @ + 1]
  /\ UNCHANGED << database, http, probe, program, updated, config, phase, llm, init_log, llm_sig, rss, invoke, net_calls >>

(* property_service.py lines 31-34: the call returns, the chained context is built *)
ReturnClaude ==
  /\ req.pc = "InvokingProviderA"
  /\ req.a = "running"
  /\ \E outcome \in ProviderOutcomes(ClaudeTexts) :
       LET r == AnalyzeWithClaude(llm, req.question, outcome)
       IN  /\ req' = IF r.raised
                     THEN HandleFault([req EXCEPT !.a = "raised"], outcome.err)
                     ELSE Goto([req EXCEPT
                                  !.a = "returned",
                                  !.claude_result = Some(r.result),
                                  !.enhanced_context =
                                     Some(BuildEnhancedContext(req.question, r.result,
                                                               req.rss_context[1]))],
                               StageAfter("InvokingProviderA"))
           /\ net_calls' = net_calls + r.net
           /\ llm' = r.self
  /\ invoke' = None
  /\ UNCHANGED << database, http, probe, program, updated, config, phase, init_log, llm_sig, rss >>

(* property_service.py lines 35-39: the call binds its arguments *)
StartGemini ==
  /\ req.pc = "InvokingProviderB"
  /\ req.b = "not_started"
  /\ req' = IF BindRaises(GeminiParams(llm_sig), { "context" })
            THEN HandleFault(req, TypeErrorText("analyze_with_gemini"))
            ELSE [req EXCEPT
                    !.b = "running",
                    !.gemini_calls = @ + 1,
                    !.gemini_args = Some([question |-> req.question,
                                          claude_context |-> Get(req.claude_result[1], "analysis"),
                                          context |-> req.enhanced_context[1]])]
  /\ UNCHANGED << database, http, probe, program, updated, config, phase, llm, init_log, llm_sig, rss, invoke, net_calls >>

(* property_service.py lines 35-39: the call returns *)
ReturnGemini ==
  /\ req.pc = "InvokingProviderB"
  /\ req.b = "running"
  /\ \E outcome \in ProviderOutcomes(GeminiTexts) :
       LET r == AnalyzeWithGemini(llm, req.gemini_args[1].question,
                                  req.gemini_args[1].claude_context, outcome)
       IN  /\ req' = IF r.raised
                     THEN HandleFault([req EXCEPT !.b = "raised"], outcome.err)
                     ELSE Goto([req EXCEPT
                                  !.b = "returned",
                                  !.gemini_args = Some(req.gemini_args[1] @@ [prompt |-> r.prompt]),
                                  !.gemini_result = Some(r.result)],
                               StageAfter("InvokingProviderB"))
           /\ net_calls' = net_calls + r.net
           /\ llm' = r.self
  /\ UNCHANGED << database, http, probe, program, updated, config, phase, init_log, llm_sig, rss, invoke >>

(* property_service.py lines 41-63 *)
Format ==
  /\ req.pc = "Formatting"
  /\ LET final_answer ==
           FormatComprehensiveAnswer(req.question, req.claude_result[1], req.gemini_result[1],
                                     req.data_sources, Len(req.data_sources) > 0)
     IN  req' = Goto([req EXCEPT
                        !.result = Some(PipelineResult(req.question, req.question_type[1],
                                                       final_answer, req.claude_result[1],
                                                       req.gemini_result[1], req.data_sources))],
                     StageAfter("Formatting"))
  /\ UNCHANGED << database, http, probe, program, updated, config, phase, llm, init_log, llm_sig, rss, invoke, net_calls >>

(* one direct call is followed between two steps of the requests: the
   services keep nothing of a direct call, so a second one starts from the
   same state as the first *)
NoDirectCallYet == invoke = None /\ probe = None

(* app.py lines 407-457: the service has returned to the route handler, which
   stores the query and answers. The handler passes on only non-empty
   questions (lines 389-394). *)
Handle ==
  /\ req.pc = "Done"
  /\ ~req.raised
  /\ req.question # ""
  /\ \E store \in StoreOutcomes :
       http' = Some(HandlerResponse(req.question, req.result[1], database, store))
  /\ req' = [req EXCEPT !.pc = "Responded"]
  /\ UNCHANGED << database, probe, program, updated, config, phase, llm, init_log, llm_sig, rss,
                  invoke, net_calls >>

(* the questions of a direct invocation: any before the first request, the
   request's own when it overlaps a request *)
DirectQuestions == IF req.pc = "idle" THEN Questions ELSE { req.question }

(* a caller invokes LLMService.analyze_with_claude(question) directly, before
   the first request or concurrently with a request whose provider A call is
   in flight (another thread of the server sharing the LLMService instance) *)
InvokeClaude ==
  /\ phase = "ready"
  /\ NoDirectCallYet
  /\ req.pc = "idle" \/ req.a = "running"
  /\ \E q \in DirectQuestions, outcome \in ProviderOutcomes(ClaudeTexts) :
       LET r == AnalyzeWithClaude(llm, q, outcome)
       IN  /\ invoke' = Some([provider |-> "claude", available |-> llm.claude_client,
                              question |-> q, outcome |-> outcome, raised |-> r.raised,
                              result |-> r.result, net |-> r.net])
           /\ net_calls' = IF req.pc = "idle" THEN r.net ELSE net_calls
           /\ llm' = r.self
  /\ probe' = None
  /\ UNCHANGED << database, http, program, updated, config, phase, init_log, llm_sig, rss, req >>

(* a caller invokes LLMService.analyze_with_gemini(question, claude_context),
   before the first request or concurrently with one *)
InvokeGemini ==
  /\ phase = "ready"
  /\ NoDirectCallYet
  /\ req.pc = "idle" \/ req.a = "running"
  /\ \E q \in DirectQuestions, ctx \in { "" } \cup ClaudeTexts,
        outcome \in ProviderOutcomes(GeminiTexts) :
       LET r == AnalyzeWithGemini(llm, q, Some(ctx), outcome)
       IN  /\ invoke' = Some([provider |-> "gemini", available |-> llm.gemini_model,
                              question |-> q, outcome |-> outcome, raised |-> r.raised,
                              result |-> r.result, net |-> r.net])
           /\ net_calls' = IF req.pc = "idle" THEN r.net ELSE net_calls
           /\ llm' = r.self
  /\ probe' = None
  /\ UNCHANGED << database, http, program, updated, config, phase, init_log, llm_sig, rss, req >>

(* source lists handed to _build_rss_context directly: empty, the placeholder,
   genuine records, and the two orders of a mixed list *)
SourceLists ==
  LET placeholder == GetFallbackDataSources[1]
      genuine(i) == ToDataSource(Article(i, "plain"))
  IN  { << >>, << placeholder >>, << genuine(1) >>, << genuine(1), genuine(2) >>,
        << placeholder, genuine(1) >>, << genuine(1), placeholder >> }

(* a caller applies PropertyAnalysisService._build_rss_context to a source list *)
BuildContextDirect ==
  /\ phase = "ready"
  /\ NoDirectCallYet
  /\ req.pc = "idle"
  /\ \E q \in { "" }, sources \in SourceLists :
       probe' = Some([op |-> "build_rss_context", sources |-> sources,
                      raised |-> BuildRssContextRaises(q, sources),
                      value |-> IF BuildRssContextRaises(q, sources) THEN None
                                ELSE Some(BuildRssContext(q, sources))])
  /\ invoke' = None
  /\ UNCHANGED << database, http, program, updated, config, phase, llm, init_log, llm_sig, rss, req, net_calls >>

(* a caller reads LLMService.get_health_status *)
HealthCheck ==
  /\ phase = "ready"
  /\ NoDirectCallYet
  /\ req.pc = "idle"
  /\ LET h == GetHealthStatus(llm, config)
     IN  /\ probe' = Some([op |-> "get_health_status", value |-> h.value])
         /\ llm' = h.self
  /\ invoke' = None
  /\ UNCHANGED << database, http, program, updated, config, phase, init_log, llm_sig, rss, req, net_calls >>

(* source lists handed to _prepare_analysis_context directly *)
UpdatedSourceLists ==
  LET placeholder == UpdatedGetFallbackSources[1]
      genuine(i) == NewsSource("aus_property_" \o ToString(i), "Australian Property News",
                               NewsArticle(i + 2, "full"), [national_scope |-> TRUE])
  IN  { << >>, << placeholder >>, << genuine(1) >>,
        << placeholder, genuine(1) >>, << genuine(1), placeholder >> }

(* a caller applies UpdatedPropertyService._prepare_analysis_context *)
PrepareContextDirect ==
  /\ program = "updated"
  /\ updated = None
  /\ \E q \in { "QLD market trend" }, sources \in UpdatedSourceLists :
       probe' = Some([op |-> "prepare_analysis_context", sources |-> sources,
                      raised |-> FALSE,
                      value |-> Some(PrepareAnalysisContext(q, sources))])
  /\ UNCHANGED << database, http, config, phase, llm, init_log, llm_sig, rss, req, invoke, net_calls, program, updated >>

(* rss_service.py run as a program: property_service_real.analyze_property_question *)
UpdatedAnalyze ==
  /\ program = "updated"
  /\ updated = None
  /\ \E q \in Questions, include_details \in BOOLEAN, fetch \in NewsFetches,
        cq \in QueryOutcomes(ClaudeTexts, CLAUDE_MODELS[1]),
        gq \in QueryOutcomes(GeminiTexts, GEMINI_MODELS[1]) :
       updated' = Some([question |-> q,
                        fetch |-> fetch,
                        claude |-> cq,
                        gemini |-> gq,
                        response |-> UpdatedAnalyzePropertyQuestion(q, include_details, fetch, cq, gq)])
  /\ probe' = None
  /\ UNCHANGED << database, http, config, phase, llm, init_log, llm_sig, rss, req, invoke, net_calls, program >>

(* the caller has consumed the response; the service keeps nothing of the call *)
UpdatedDone ==
  /\ program = "updated"
  /\ updated # None
  /\ updated' = None
  /\ UNCHANGED << database, http, probe, config, phase, llm, init_log, llm_sig, rss, req, invoke, net_calls, program >>

Next ==
  \/ UpdatedAnalyze
  \/ UpdatedDone
  \/ InitializeServices
  \/ NewRequest
  \/ Classify
  \/ GatherContext
  \/ StartClaude
  \/ ReturnClaude
  \/ StartGemini
  \/ ReturnGemini
  \/ Format
  \/ InvokeClaude
  \/ InvokeGemini
  \/ Handle
  \/ BuildContextDirect
  \/ HealthCheck
  \/ PrepareContextDirect

Spec == Init /\ [][Next]_vars

(***************************************************************************)
(* Properties                                                              *)
(***************************************************************************)
Done == req.pc = "Done"
Faulted == req.fault # None
Composed == Done /\ ~Faulted
ClaudeResult == req.claude_result[1]
GeminiResult == req.gemini_result[1]
FinalAnswer == req.result[1].final_answer
Stages == req.result[1].processing_stages
UpdatedResponse == updated[1].response

StartsWith(text, prefix) ==
  Len(prefix) <= Len(text) /\ SubSeq(text, 1, Len(prefix)) = prefix

(* the answer's first segment, the one the sources and status segments follow *)
PrimaryBodyIs(answer, body) == StartsWith(answer, body \o "\n\n")

ClaudeFailedLine == "- **Claude 3.5 Sonnet**: (x) Strategic Analysis Failed\n"
GeminiCompletedLine == "- **Gemini 1.5 Flash**: (ok) Comprehensive Analysis Completed\n"

(* C1: provider B's stage is entered, and provider B is invoked, only once
   provider A's call has returned its result; the two calls are never in
   flight together. *)
C1_ProviderBAfterA ==
  /\ req.pc = "InvokingProviderB" => (req.a = "returned" /\ req.claude_result # None)
  /\ req.b # "not_started" => (req.a = "returned" /\ req.claude_result # None)
  /\ ~(req.a = "running" /\ req.b = "running")

C1_Witness == req.b = "running" /\ req.a = "returned" /\ req.claude_result # None

(* C2: a finished analyze_property_question call has returned a record with a
   success flag and an answer, and no exception has left the method, whatever
   failed on the way. *)
C2_NeverRaises ==
  Done => /\ ~req.raised
          /\ req.result # None
          /\ { "success", "final_answer" } \subseteq DOMAIN req.result[1]

C2_Witness ==
  /\ Done /\ Faulted /\ req.question = ""
  /\ Len(req.data_sources) = 1 /\ ~req.data_sources[1].real_data

(* C3 (as claimed): with both providers unavailable the result has success
   true and its answer is the Fallback Generator's text for the question. *)
C3_BothUnavailableSucceeds ==
  (Done /\ ~llm.claude_client /\ ~llm.gemini_model)
    => (req.result[1].success /\ FinalAnswer = GenerateFallbackAnswer(req.question))

(* the text the claim expects as primary body *)
ExpectedBody(b_ok, b_text, a_ok, a_text, otherwise) ==
  IF b_ok THEN b_text ELSE IF a_ok THEN a_text ELSE otherwise

(* C4 (as claimed): the answer's primary body is B's text if B succeeded, else
   A's text if A succeeded, else the Fallback Generator's text, in both
   property services. *)
C4_BodyOrFallbackEverywhere ==
  /\ Composed =>
       PrimaryBodyIs(FinalAnswer,
                     ExpectedBody(GeminiResult.success, Fmt(Get(GeminiResult, "analysis")),
                                  ClaudeResult.success, Fmt(Get(ClaudeResult, "analysis")),
                                  GenerateFallbackAnswer(req.question)))
  /\ (updated # None /\ ~updated[1].claude.raises /\ ~updated[1].gemini.raises) =>
       UpdatedResponse.answer =
         ExpectedBody(updated[1].gemini.value.success, GetOr(updated[1].gemini.value, "response", ""),
                      updated[1].claude.value.success, GetOr(updated[1].claude.value, "response", ""),
                      GenerateFallbackAnswer(updated[1].question))

(* C4 (amended): in PropertyAnalysisService the primary body is B's text if B
   succeeded, else A's text if A succeeded, else the Fallback Generator's
   text (which is the whole answer when a fault was caught); in
   UpdatedPropertyService the answer is B's response if B succeeded, else A's
   if A succeeded, else a fixed apology, never the Fallback Generator's text. *)
C4_BodyOrFallback ==
  /\ Composed =>
       PrimaryBodyIs(FinalAnswer,
                     ExpectedBody(GeminiResult.success, Fmt(Get(GeminiResult, "analysis")),
                                  ClaudeResult.success, Fmt(Get(ClaudeResult, "analysis")),
                                  GenerateFallbackAnswer(req.question)))
  /\ (Done /\ Faulted) =>
       /\ FinalAnswer = GenerateFallbackAnswer(req.question)
       /\ req.claude_result = None \/ ~ClaudeResult.success
       /\ req.gemini_result = None
  /\ (updated # None /\ ~updated[1].claude.raises /\ ~updated[1].gemini.raises) =>
       UpdatedResponse.answer =
         ExpectedBody(updated[1].gemini.value.success, GetOr(updated[1].gemini.value, "response", ""),
                      updated[1].claude.value.success, GetOr(updated[1].claude.value, "response", ""),
                      ProvidersDownApology)
  /\ (updated # None /\ (updated[1].claude.raises \/ updated[1].gemini.raises)) =>
       UpdatedResponse.answer = AnalysisErrorApology

C4_Witness ==
  /\ Composed /\ ~GeminiResult.success /\ ClaudeResult.success
  /\ ClaudeResult.analysis[1] # ""

(* C5 (as claimed): when A fails and B succeeds the final answer equals B's
   text. *)
C5_AnswerEqualsB ==
  (Composed /\ ~ClaudeResult.success /\ GeminiResult.success)
    => FinalAnswer = GeminiResult.analysis[1]

(* C5 (amended): when A fails and B succeeds, B's text is the primary body of
   the final answer, whose status block reports A failed and B completed, and
   processing_stages says the same; in UpdatedPropertyService the answer
   equals B's response. *)
C5_BThenStatus ==
  /\ (Composed /\ ~ClaudeResult.success /\ GeminiResult.success) =>
       /\ PrimaryBodyIs(FinalAnswer, GeminiResult.analysis[1])
       /\ StrIn(ClaudeFailedLine, FinalAnswer)
       /\ StrIn(GeminiCompletedLine, FinalAnswer)
       /\ ~Stages.claude_success /\ Stages.gemini_success
  /\ (/\ updated # None /\ ~updated[1].claude.raises /\ ~updated[1].gemini.raises
      /\ ~updated[1].claude.value.success /\ updated[1].gemini.value.success) =>
       /\ UpdatedResponse.answer = updated[1].gemini.value.response
       /\ ~UpdatedResponse.processing_stages.claude_success
       /\ UpdatedResponse.processing_stages.gemini_success

C5_Witness ==
  /\ Composed /\ ~ClaudeResult.success /\ GeminiResult.success
  /\ GeminiResult.analysis[1] # ""

(* C6 (as claimed): wired to the LLMService of src/ with both providers
   available and no provider call failing, analyze returns success true with
   claude_success and gemini_success true and an answer holding B's text. *)
C6_BothSucceedWired ==
  (/\ Done /\ llm_sig = "src" /\ llm.claude_client /\ llm.gemini_model
   /\ (req.claude_result # None => ClaudeResult.success)
   /\ (req.gemini_result # None => GeminiResult.success))
    => /\ req.result[1].success
       /\ "processing_stages" \in DOMAIN req.result[1]
       /\ Stages.claude_success /\ Stages.gemini_success
       /\ StrIn(GeminiResult.analysis[1], FinalAnswer)

(* C7 (as claimed): success is true whenever a provider succeeded or the
   Fallback Generator produced the answer text. *)
C7_SuccessWheneverAnswered ==
  Done =>
    ((\/ (req.claude_result # None /\ ClaudeResult.success)
      \/ (req.gemini_result # None /\ GeminiResult.success)
      \/ StartsWith(FinalAnswer, GenerateFallbackAnswer(req.question)))
       => req.result[1].success)

(* C8: a result has success false exactly when a fault was caught while no
   provider call was in flight; provider failures alone leave success true;
   the caught fault's result carries the Fallback Generator's text and nothing
   is raised. UpdatedPropertyService never answers success false. *)
C8_FailureOnlyOnFault ==
  /\ Done => (req.result[1].success <=> ~Faulted)
  /\ (Done /\ ~req.result[1].success) =>
       /\ ~req.raised
       /\ req.a # "running" /\ req.b # "running"
       /\ FinalAnswer = GenerateFallbackAnswer(req.question)
  /\ updated # None => UpdatedResponse.success

C8_Witness == Done /\ ~req.result[1].success /\ Faulted

(* C9: what is submitted to provider B holds the whole of A's text when A
   succeeded; when A failed the chained context is exactly the context block
   and neither it nor the prompt holds a provider-A section, a None
   placeholder or A's error text. *)
C9_ChainedPrompt ==
  req.gemini_args # None =>
    LET args == req.gemini_args[1]
        sent == "prompt" \in DOMAIN args /\ args.prompt # None
    IN  IF ClaudeResult.success
        THEN /\ StrIn(ClaudeResult.analysis[1], args.context)
             /\ args.claude_context = ClaudeResult.analysis
             /\ sent => StrIn(ClaudeResult.analysis[1], args.prompt[1])
        ELSE /\ args.context = req.rss_context[1]
             /\ ~StrIn("Strategic Analysis Context", args.context)
             /\ ~StrIn("None", args.context)
             /\ ~StrIn(ClaudeResult.error, args.context)
             /\ ~Truthy(args.claude_context)
             /\ sent => /\ ~StrIn("Initial Research Context", args.prompt[1])
                        /\ ~StrIn("None", args.prompt[1])
                        /\ ~StrIn(ClaudeResult.error, args.prompt[1])

C9_Witness ==
  /\ req.gemini_args # None
  /\ "prompt" \in DOMAIN req.gemini_args[1] /\ req.gemini_args[1].prompt # None
  /\ ~ClaudeResult.success

(* C10: invoking an unavailable provider returns success false with an error
   naming that provider as not available, and makes no provider API call. *)
C10_UnavailableProvider ==
  /\ (invoke # None /\ ~invoke[1].available) =>
       /\ ~invoke[1].result.success
       /\ invoke[1].result.analysis = None
       /\ StrIn("not available", invoke[1].result.error)
       /\ StrIn(IF invoke[1].provider = "claude" THEN "Claude" ELSE "Gemini",
                invoke[1].result.error)
       /\ invoke[1].net = 0 /\ net_calls = 0
  /\ (req.claude_result # None /\ ~llm.claude_client) =>
       /\ ~ClaudeResult.success
       /\ ClaudeResult.error = "Claude client not available"
  /\ (req.gemini_result # None /\ ~llm.gemini_model) =>
       /\ ~GeminiResult.success
       /\ GeminiResult.error = "Gemini model not available"
  /\ (Done /\ ~llm.claude_client /\ ~llm.gemini_model) => net_calls = 0

C10_Witness ==
  invoke # None /\ ~invoke[1].available /\ invoke[1].provider = "claude"

(* C11: invoking an available provider never lets an exception leave the
   gateway method: a provider-side error comes back as a result with success
   false whose error text carries the error's description, and no pipeline
   call ends with an exception raised by a provider method. *)
C11_ProviderFaultsCaught ==
  /\ (invoke # None /\ invoke[1].available) =>
       /\ ~invoke[1].raised
       /\ invoke[1].result # None
       /\ invoke[1].result.success = invoke[1].outcome.ok
       /\ ~invoke[1].outcome.ok =>
            /\ StrIn(" analysis failed: ", invoke[1].result.error)
            /\ StrIn(invoke[1].outcome.err, invoke[1].result.error)
  /\ req.a # "raised" /\ req.b # "raised"
  /\ (req.claude_result # None /\ llm.claude_client /\ ~ClaudeResult.success) =>
       \E e \in ProviderErrors : ClaudeResult.error = "Claude analysis failed: " \o e
  /\ (req.gemini_result # None /\ llm.gemini_model /\ ~GeminiResult.success) =>
       \E e \in ProviderErrors : GeminiResult.error = "Gemini analysis failed: " \o e

C11_Witness ==
  /\ invoke # None /\ invoke[1].available /\ invoke[1].provider = "gemini"
  /\ ~invoke[1].outcome.ok /\ ~invoke[1].result.success

(* a provider result is well formed: text present and no error key when it
   succeeded, text None and an error description when it failed *)
WellFormedProviderResult(r) ==
  IF r.success
  THEN r.analysis # None /\ "error" \notin DOMAIN r
  ELSE r.analysis = None /\ "error" \in DOMAIN r /\ Len(r.error) > 0

(* C12: every provider result the gateway returns, to a direct caller or to
   the pipeline, has a non-null text and no error description when success is
   true, and a null text and an error description when success is false. *)
C12_ProviderResultShape ==
  /\ (invoke # None /\ ~invoke[1].raised) => WellFormedProviderResult(invoke[1].result)
  /\ req.claude_result # None => WellFormedProviderResult(ClaudeResult)
  /\ req.gemini_result # None => WellFormedProviderResult(GeminiResult)
  /\ Composed => /\ WellFormedProviderResult(req.result[1].claude_result)
                 /\ WellFormedProviderResult(req.result[1].gemini_result)

C12_Witness ==
  /\ invoke # None /\ invoke[1].result.success /\ invoke[1].result.analysis = Some("")
  /\ invoke[1].provider = "claude"

(* C13 (as claimed): every finished analyze request has entered provider A's
   gateway method exactly once and provider B's exactly once, whatever
   provider A answered. *)
C13_EachProviderOnce ==
  Done => (req.claude_calls = 1 /\ req.gemini_calls = 1)

PresetSet == { PRESET_QUESTIONS[i] : i \in 1..Len(PRESET_QUESTIONS) }

(* C14: classification answers 'preset' exactly for the questions equal to an
   entry of the preset list and 'custom' for every other string, a preset
   entry in another letter case included; it has answered by the time the
   request leaves the classifying stage, and a composed result reports the
   same type. *)
C14_Classification ==
  /\ req.pc \notin { "idle", "Classifying" } => req.question_type # None
  /\ req.question_type # None =>
       req.question_type[1] = (IF req.question \in PresetSet THEN "preset" ELSE "custom")
  /\ Composed =>
       req.result[1].question_type = (IF req.question \in PresetSet THEN "preset" ELSE "custom")

C14_Witness ==
  /\ req.question_type = Some("custom")
  /\ req.question # PRESET_QUESTIONS[5]
  /\ Lower(req.question) = Lower(PRESET_QUESTIONS[5])

(* the articles whose entry line appears in an answer's sources section *)
ListedInAnswer(answer) ==
  { i \in 1..MaxArticles : StrIn("- **Feed " \o ToString(i) \o "** ", answer) }

(* the articles rendered as a numbered entry of a context block *)
RenderedInContext(context) ==
  { i \in 1..MaxArticles : StrIn("\n### " \o ToString(i) \o ". Headline " \o ToString(i), context) }

(* C15: a composed answer lists at most 5 sources, and the context block
   (as built, before provider A is called) and the chained context (as built,
   before provider B is called) render at most 6, however many articles the
   collaborator returned. *)
C15_SourceCaps ==
  /\ Composed => Cardinality(ListedInAnswer(FinalAnswer)) <= 5
  /\ (req.pc = "InvokingProviderA" /\ req.a = "not_started") =>
       Cardinality(RenderedInContext(req.rss_context[1])) <= 6
  /\ (req.pc = "InvokingProviderB" /\ req.b = "not_started") =>
       Cardinality(RenderedInContext(req.enhanced_context[1])) <= 6

C15_Witness ==
  /\ Composed /\ Len(req.data_sources) > 6
  /\ Cardinality(ListedInAnswer(FinalAnswer)) = 5
  /\ Cardinality(RenderedInContext(req.rss_context[1])) = 6

(* C16: when the collaborator answered with no article at all, the answer of
   the finished request holds neither the real-data sources heading nor the
   generic data-sources heading, and no source entry. *)
C16_NoSourcesNoSection ==
  (Done /\ req.fetched = Some(0)) =>
    /\ Len(req.data_sources) = 0
    /\ ~StrIn(RealSourcesHeading, FinalAnswer)
    /\ ~StrIn(DataSourcesHeading, FinalAnswer)
    /\ ~StrIn("- **Feed ", FinalAnswer)

C16_Witness ==
  /\ Composed /\ req.fetched = Some(0)
  /\ StrIn(SummaryHeading, FinalAnswer)

(* the articles of a fetch, from either list *)
FetchedArticles(fetch) ==
  { fetch.brisbane[i] : i \in 1..Len(fetch.brisbane) } \cup
  { fetch.general[i] : i \in 1..Len(fetch.general) }

(* C17: every source UpdatedPropertyService builds from an article carries the
   article's summary unmodified when it has at most 300 characters, and its
   first 300 characters followed by "..." when it is longer. *)
C17_SummaryTruncation ==
  (updated # None /\ UpdatedResponse.data_sources # None) =>
    \A k \in 1..Len(UpdatedResponse.data_sources[1]) :
      LET source == UpdatedResponse.data_sources[1][k]
      IN  source.type = "rss_feed" =>
            \E article \in FetchedArticles(updated[1].fetch) :
              LET summary == GetOr(article, "summary", "")
              IN  /\ source.title = GetOr(article, "title", "No title")
                  /\ Len(summary) <= SummaryBudget => source.summary = summary
                  /\ Len(summary) > SummaryBudget =>
                       /\ Len(source.summary) = SummaryBudget + 3
                       /\ SubSeq(source.summary, 1, SummaryBudget) = SubSeq(summary, 1, SummaryBudget)
                       /\ SubSeq(source.summary, SummaryBudget + 1, SummaryBudget + 3) = "..."

C17_Witness ==
  /\ updated # None /\ UpdatedResponse.data_sources # None
  /\ \E k \in 1..Len(UpdatedResponse.data_sources[1]) :
       /\ UpdatedResponse.data_sources[1][k].type = "rss_feed"
       /\ Len(UpdatedResponse.data_sources[1][k].summary) = SummaryBudget + 3
  /\ \E k \in 1..Len(UpdatedResponse.data_sources[1]) :
       /\ UpdatedResponse.data_sources[1][k].type = "rss_feed"
       /\ Len(UpdatedResponse.data_sources[1][k].summary) = SummaryBudget

(* the one text the Fallback Generator has for each question of the model *)
FallbackTextOf ==
  [q \in Questions |->
     FallbackBase
     \o (CASE q = "" -> ""
           [] q = "Which areas have the most development activity?" ->
                "\n\n**Development Activity Insights:**"
           [] q = "which areas have the most development activity?" ->
                "\n\n**Development Activity Insights:**"
           [] q = "QLD market trend" -> "\n\n**Market Trend Analysis:**"
           [] q = "Transport upgrades" -> "\n\n**Infrastructure Impact:**"
           [] q = "Best suburb to rent" -> "")
     \o FallbackNote]

(* C18: wherever the Fallback Generator's text is used, as the whole answer
   after a caught fault or as the primary body when both providers failed, it
   is the one text fixed by the question, whatever the providers' state, the
   sources gathered and the errors met; producing it raises nothing, also for
   the empty question, and adds no provider call to those the request made. *)
C18_FallbackDeterministic ==
  /\ (Done /\ Faulted) =>
       /\ ~req.raised
       /\ FinalAnswer = FallbackTextOf[req.question]
       /\ net_calls = req.claude_calls + req.gemini_calls
  /\ (Composed /\ ~ClaudeResult.success /\ ~GeminiResult.success) =>
       /\ PrimaryBodyIs(FinalAnswer, FallbackTextOf[req.question])
       /\ net_calls = (IF llm.claude_client THEN 1 ELSE 0) + (IF llm.gemini_model THEN 1 ELSE 0)

C18_Witness ==
  /\ Composed /\ ~ClaudeResult.success /\ ~GeminiResult.success
  /\ Len(req.data_sources) > 1 /\ req.question = "QLD market trend"
  /\ net_calls = 2

(* the candidate loop of one provider did what the claim says: log is what it
   tried, models the candidate list, client and working the fields it left *)
FirstSuccessFrozen(log, models, client, working, configured) ==
  /\ \A k \in 1..Len(log) : log[k].index = k
  /\ \A k \in 1..(Len(log) - 1) : ~log[k].ok
  /\ configured <=> Len(log) > 0
  /\ (Len(log) > 0 /\ log[Len(log)].ok) =>
       (client /\ working = Some(models[Len(log)]))
  /\ (Len(log) > 0 /\ ~log[Len(log)].ok) =>
       (Len(log) = Len(models) /\ ~client /\ working = None)
  /\ Len(log) = 0 => (~client /\ working = None)

(* C19: once initialization has run, each provider's candidates were tried in
   list order from the first, every candidate before the last tried one
   failed, and the working model is the last tried one if its test succeeded;
   if all candidates failed (or the provider is disabled or has no key) the
   provider is unavailable and has no working model. *)
C19_FirstWorkingModel ==
  phase = "ready" =>
    /\ FirstSuccessFrozen(init_log.claude, CLAUDE_MODELS, llm.claude_client,
                          llm.working_claude_model,
                          config.CLAUDE_ENABLED /\ config.CLAUDE_API_KEY)
    /\ FirstSuccessFrozen(init_log.gemini, GEMINI_MODELS, llm.gemini_model,
                          llm.working_gemini_model,
                          config.GEMINI_ENABLED /\ config.GEMINI_API_KEY)

C19_Witness ==
  /\ phase = "ready"
  /\ Len(init_log.claude) = 2 /\ llm.working_claude_model = Some(CLAUDE_MODELS[2])
  /\ Len(init_log.gemini) = Len(GEMINI_MODELS) /\ ~llm.gemini_model

(* C20: once initialization has finished, no step of a request and no direct
   provider invocation, overlapping a request or not, changes a provider's
   client or working model. *)
C20_SharedStateFrozen ==
  [][phase = "ready" => llm' = llm]_vars

C20_Witness ==
  /\ phase = "ready" /\ req.a = "running"
  /\ invoke # None /\ invoke[1].provider = "gemini" /\ invoke[1].available
  /\ ~invoke[1].outcome.ok
  /\ llm.gemini_model /\ llm.working_gemini_model # None

(* C21 (as claimed): when the RSS collaborator is absent or its fetch raises,
   the request's source list is empty, processing_stages.real_data_used is
   false and the status block does not report real RSS sources. *)
C21_NoCollaboratorNoRealData ==
  (Composed /\ req.fetched = None) =>
    /\ Len(req.data_sources) = 0
    /\ ~Stages.real_data_used
    /\ ~StrIn("Real RSS Sources", FinalAnswer)

(* a source record is one converted from a collaborator article *)
IsGenuine(source) == source.type = "rss_news" /\ "link" \in DOMAIN source

(* C22: in every source list a request holds, a record converted from an
   article is flagged real_data and the fallback placeholder is not; the list
   is either the articles the collaborator returned, all flagged, or the
   single unflagged placeholder, never a mix. *)
C22_RealDataFlag ==
  req.pc \notin { "idle", "Classifying", "GatheringContext" } =>
    /\ \A i \in 1..Len(req.data_sources) :
         req.data_sources[i].real_data <=> IsGenuine(req.data_sources[i])
    /\ \/ /\ req.fetched # None /\ Len(req.data_sources) = req.fetched[1]
          /\ \A i \in 1..Len(req.data_sources) : req.data_sources[i].real_data
       \/ /\ Len(req.data_sources) = 1
          /\ req.data_sources[1].type = "fallback" /\ ~req.data_sources[1].real_data

C22_Witness ==
  /\ req.pc = "InvokingProviderA" /\ req.fetched = Some(1)
  /\ Len(req.data_sources) = 1 /\ ~req.data_sources[1].real_data

(* how many times needle occurs in text *)
Occurrences(needle, text) ==
  Cardinality({ i \in 1..(Len(text) - Len(needle) + 1) :
                  SubSeq(text, i, i + Len(needle) - 1) = needle })

(* C25 (as claimed): in a composed answer each section heading appears at most
   once, and a sources heading appears only with at least one source entry
   beneath it, so never when the list holds no genuine source. *)
C25_NoEmptySourcesSection ==
  Composed =>
    /\ Occurrences(SummaryHeading, FinalAnswer) = 1
    /\ Occurrences(RealSourcesHeading, FinalAnswer) <= 1
    /\ StrIn(RealSourcesHeading, FinalAnswer) =>
         /\ \E i \in 1..Len(req.data_sources) : req.data_sources[i].real_data
         /\ StrIn(RealSourcesHeading \o "\n\n- **", FinalAnswer)

(* the stages of the claimed path, in order *)
AllStages ==
  << "Classifying", "GatheringContext", "InvokingProviderA", "InvokingProviderB",
     "Formatting", "Done" >>

(* C26 (as claimed): a finished request has passed through Classifying,
   GatheringContext, InvokingProviderA, InvokingProviderB and Formatting, in
   that order and skipping none, and holds a result. *)
C26_AllStagesInOrder ==
  Done => (req.stages = AllStages /\ req.result # None)

(* C30 (as claimed): UpdatedPropertyService reports rss_data_fetched true only
   if a genuine RSS source was retrieved; when the fetch raised and the
   fallback placeholder is used it is false and real_sources_used is empty. *)
C30_RssFetchedOnlyIfGenuine ==
  updated # None =>
    /\ UpdatedResponse.processing_stages.rss_data_fetched =>
         Len(UpdatedResponse.processing_stages.real_sources_used) > 0
    /\ updated[1].fetch.raises =>
         /\ ~UpdatedResponse.processing_stages.rss_data_fetched
         /\ UpdatedResponse.processing_stages.real_sources_used = << >>

EndsWith(text, suffix) ==
  Len(suffix) <= Len(text) /\ SubSeq(text, Len(text) - Len(suffix) + 1, Len(text)) = suffix

BuildProbe == probe # None /\ probe[1].op = "build_rss_context"
PrepareProbe == probe # None /\ probe[1].op = "prepare_analysis_context"

(* no source of the list carries the genuine-data flag *)
NoGenuineSource(sources) == \A i \in 1..Len(sources) : ~sources[i].real_data

DataHeader == "\n# Current Australian Property Market Data\n"

(* the context block the pipeline has just built *)
ContextJustBuilt == req.pc = "InvokingProviderA" /\ req.a = "not_started"

(* C23 (as claimed): the context builders return the 'live data unavailable'
   notice exactly when the list is empty or holds no genuine source, and for
   every list with a genuine source render the data header and the sources. *)
C23_NoticeIffNoGenuine ==
  /\ BuildProbe =>
       /\ ~probe[1].raised
       /\ (probe[1].value = Some(RssNotice)) <=> NoGenuineSource(probe[1].sources)
       /\ ~NoGenuineSource(probe[1].sources) => StartsWith(probe[1].value[1], DataHeader)
  /\ PrepareProbe =>
       (StrIn("RSS Feeds Temporarily Unavailable", probe[1].value[1])
          <=> \A i \in 1..Len(probe[1].sources) : ~IsRealSource(probe[1].sources[i]))

(* C23 (amended): _build_rss_context returns the notice exactly when the list
   is empty or its FIRST source does not carry the flag; otherwise it renders
   the header and the first six sources, and raises KeyError if one of them
   is not a genuine record. On the lists the pipeline builds, which never mix
   the two kinds, that is the claimed condition. _prepare_analysis_context
   returns its notice exactly when no source of the list is genuine, and
   renders every genuine source otherwise. *)
C23_NoticeIffFirstNotGenuine ==
  /\ BuildProbe =>
       LET sources == probe[1].sources
           first_real == Len(sources) > 0 /\ sources[1].real_data
           renderable == \A i \in 1..Len(sources) : i <= 6 => IsGenuine(sources[i])
       IN  /\ ~first_real => (~probe[1].raised /\ probe[1].value = Some(RssNotice))
           /\ (first_real /\ ~renderable) => probe[1].raised
           /\ (first_real /\ renderable) =>
                /\ ~probe[1].raised
                /\ StartsWith(probe[1].value[1], DataHeader)
                /\ \A i \in 1..Len(sources) :
                     StrIn("\n### " \o ToString(i) \o ". " \o sources[i].title \o "\n",
                           probe[1].value[1])
  /\ ContextJustBuilt =>
       /\ (req.rss_context = Some(RssNotice)) <=> NoGenuineSource(req.data_sources)
       /\ ~NoGenuineSource(req.data_sources) =>
            /\ StartsWith(req.rss_context[1], DataHeader)
            /\ StrIn("\n### 1. " \o req.data_sources[1].title \o "\n", req.rss_context[1])
  /\ PrepareProbe =>
       /\ StrIn("RSS Feeds Temporarily Unavailable", probe[1].value[1])
            <=> \A i \in 1..Len(probe[1].sources) : ~IsRealSource(probe[1].sources[i])
       /\ \A i \in 1..Len(probe[1].sources) :
            IsRealSource(probe[1].sources[i]) <=>
              StrIn("\n### Source " \o ToString(i) \o ": " \o probe[1].sources[i].name \o "\n",
                    probe[1].value[1])

C23_Witness ==
  /\ BuildProbe /\ Len(probe[1].sources) = 2
  /\ ~probe[1].sources[1].real_data /\ probe[1].sources[2].real_data
  /\ probe[1].value = Some(RssNotice)

(* C24 (as claimed): every context text _build_rss_context returns, in the
   rendered-sources form and in the notice form, ends with the closing
   instruction that presents the data as real current market data. *)
C24_AlwaysClosingInstruction ==
  /\ (BuildProbe /\ ~probe[1].raised) => EndsWith(probe[1].value[1], RssInstructions)
  /\ ContextJustBuilt => EndsWith(req.rss_context[1], RssInstructions)

(* C24 (amended): the rendered-sources form ends with the closing instruction;
   the notice form is the notice alone, which carries no instruction line and
   says that real-time data is unavailable. *)
C24_ClosingInstructionWhenRendered ==
  /\ (BuildProbe /\ ~probe[1].raised) =>
       IF Len(probe[1].sources) > 0 /\ probe[1].sources[1].real_data
       THEN EndsWith(probe[1].value[1], RssInstructions)
       ELSE /\ probe[1].value[1] = RssNotice
            /\ ~StrIn("Analysis Instructions", probe[1].value[1])
  /\ ContextJustBuilt =>
       IF NoGenuineSource(req.data_sources)
       THEN /\ req.rss_context[1] = RssNotice
            /\ ~StrIn("Analysis Instructions", req.rss_context[1])
            /\ StrIn("Real-time RSS data is temporarily unavailable", req.rss_context[1])
       ELSE /\ EndsWith(req.rss_context[1], RssInstructions)
            /\ StrIn("This is REAL current Australian property market data", req.rss_context[1])

C24_Witness ==
  /\ ContextJustBuilt /\ Len(req.data_sources) > 1
  /\ EndsWith(req.rss_context[1], RssInstructions)

HealthProbe == probe # None /\ probe[1].op = "get_health_status"

(* C27: once LLMService is initialized, in every state, each provider's
   handle is set exactly when its working model is, and only when the
   provider is enabled and has an API key; a get_health_status snapshot
   reports exactly the handles, working models and configuration flags. *)
C27_AvailabilityConsistent ==
  phase = "ready" =>
    /\ llm.claude_client <=> llm.working_claude_model # None
    /\ llm.gemini_model <=> llm.working_gemini_model # None
    /\ llm.claude_client => (config.CLAUDE_ENABLED /\ config.CLAUDE_API_KEY)
    /\ llm.gemini_model => (config.GEMINI_ENABLED /\ config.GEMINI_API_KEY)
    /\ HealthProbe =>
         /\ probe[1].value.claude =
              [available |-> llm.claude_client, enabled |-> config.CLAUDE_ENABLED,
               working_model |-> llm.working_claude_model,
               api_key_configured |-> config.CLAUDE_API_KEY]
         /\ probe[1].value.gemini =
              [available |-> llm.gemini_model, enabled |-> config.GEMINI_ENABLED,
               working_model |-> llm.working_gemini_model,
               api_key_configured |-> config.GEMINI_API_KEY]

C27_Witness ==
  /\ HealthProbe
  /\ config.CLAUDE_ENABLED /\ config.CLAUDE_API_KEY /\ ~probe[1].value.claude.available
  /\ probe[1].value.gemini.available
  /\ probe[1].value.gemini.working_model = Some(GEMINI_MODELS[3])

(* ---- the route handler and the record the service returns ---- *)

(* the handler has answered the request whose result is req.result *)
Answered == req.pc = "Responded" /\ http # None

(* C28: every record analyze_property_question returns, the success = false
   record built after an internal fault included, carries question_type,
   final_answer and processing_stages, and the handler answers with status 200,
   the result's success flag and its final answer, never with a 500 error. *)
C28_ReturnedRecordAnswered ==
  /\ (req.pc \in { "Done", "Responded" } /\ ~req.raised)
        => { "question_type", "final_answer", "processing_stages" }
             \subseteq DOMAIN req.result[1]
  /\ Answered
        => /\ http[1].status = 200
           /\ http[1].body.success = req.result[1].success
           /\ http[1].body.answer = req.result[1].final_answer

(* C29: the handler calls store_query only when the result has success = TRUE
   and a database is available, at most once per request; when the call fails
   the response keeps the result's success flag and answer and its query_id
   stays null; a query_id is answered only for a stored record. *)
C29_StoreOnlySuccessOnce ==
  Answered
    => /\ http[1].store_calls <= 1
       /\ http[1].stored <= http[1].store_calls
       /\ (http[1].store_calls = 1) <=> (database /\ req.result[1].success)
       /\ (http[1].store_calls = 1 /\ http[1].stored = 0)
            => /\ http[1].status = 200
               /\ http[1].body.success = req.result[1].success
               /\ http[1].body.answer = req.result[1].final_answer
               /\ http[1].body.query_id = None
       /\ (http[1].status = 200 /\ http[1].body.query_id # None)
            <=> http[1].stored = 1

(* a successful result whose store_query call raised, answered all the same *)
C29_Witness ==
  /\ Answered
  /\ database
  /\ http[1].store_calls = 1
  /\ http[1].stored = 0
  /\ http[1].status = 200
  /\ http[1].body.success

====
